---- MODULE Spec2Model ----
(***************************************************************************)
(* Model of the TCIM study-grouping scripts:                               *)
(*   agrupar_estudios.py        (console summary + bar chart),             *)
(*   grafico_interactivo_html.py (interactive HTML chart),                 *)
(*   contar_lineas.py           (line counter).                            *)
(*                                                                         *)
(* A text is a sequence of symbols.  A symbol is one character (" ", "a",  *)
(* "A", ...) or an atomic word ("High", "Sin categoría", ...) that stands  *)
(* for the characters it spells; no atomic word holds leading or trailing  *)
(* whitespace.  A dict / Counter is the sequence of its items in insertion *)
(* order, as Python dicts iterate.                                         *)
(***************************************************************************)
EXTENDS Integers, Sequences, FiniteSets

VARIABLES
    script,                       \* which script's main runs
    archivo,                      \* the CSV file on disk
    DISPONIBLE,                   \* MATPLOTLIB_DISPONIBLE / PLOTLY_DISPONIBLE
    pc,                           \* position in the script
    enc,                          \* index in ENCODINGS of the next attempt
    intentos,                     \* encodings attempted so far, in order
    filas,                        \* rows returned by leer_csv
    i,                            \* index of the next row of the grouping loop
    categorias,                   \* Counter of categories
    subcategorias_por_categoria,  \* defaultdict(Counter)
    estudios_por_categoria,       \* defaultdict(list)
    suitability_por_categoria,    \* defaultdict(Counter)
    stdout,                       \* messages printed, in order
    resumen,                      \* what imprimir_resumen printed
    grafico,                      \* what crear_grafico_barras plotted
    html,                         \* what crear_grafico_html_interactivo wrote
    escritos,                     \* names of the files written
    exit_code,                    \* <<status>> once the process has ended
    total_lineas,                 \* what contar_lineas_csv returned
    corrida,                      \* number of the current agrupar_estudios call
    previo,                       \* what the previous call returned
    dom,                          \* the page's document: state, listeners, timers
    estudiosActuales,             \* the page's let estudiosActuales
    ordenActual,                  \* the page's let ordenActual
    paneles,                      \* what the page shows in its two panels
    clic                          \* the last click and the handler calls it made

vars == <<script, archivo, DISPONIBLE, pc, enc, intentos, filas, i, categorias,
          subcategorias_por_categoria, estudios_por_categoria,
          suitability_por_categoria, stdout, resumen, grafico, html, escritos,
          exit_code, total_lineas, corrida, previo, dom, estudiosActuales,
          ordenActual, paneles, clic>>

-----------------------------------------------------------------------------
(* Bounds *)

MaxFilas == 3

-----------------------------------------------------------------------------
(* Module-level constants of the scripts *)

CATEGORY_FIELD == "Category"

SUBCATEGORY_FIELD == "Subcategory"

SUITABILITY_FIELD == "TCIM_suitability_level"

ENCODINGS == <<"utf-8", "latin-1", "iso-8859-1", "cp1252", "utf-8-sig">>

codificaciones == <<"utf-8", "latin-1", "iso-8859-1", "cp1252", "utf-8-sig">>

\* Python's None
None == <<"<None>">>

\* characters str.strip() removes
Espacios == {" ", "\t"}

\* the byte 0xE9: "é" in latin-1 / iso-8859-1 / cp1252, and not valid UTF-8
\* when no continuation byte follows it
ByteE9 == "0xE9"

-----------------------------------------------------------------------------
(* Text helpers *)

RECURSIVE lstrip(_)
lstrip(s) ==
    IF s = <<>> THEN s
    ELSE IF Head(s) \in Espacios THEN lstrip(Tail(s)) ELSE s

RECURSIVE rstrip(_)
rstrip(s) ==
    IF s = <<>> THEN s
    ELSE IF s[Len(s)] \in Espacios THEN rstrip(SubSeq(s, 1, Len(s) - 1)) ELSE s

\* str.strip()
strip(s) == rstrip(lstrip(s))

\* a normalisation that forgets to strip
normalizar_texto_sin_strip(valor, texto_vacio) ==
    IF valor = None THEN texto_vacio
    ELSE IF valor # <<>> THEN valor ELSE texto_vacio

\* valor.strip().lower(): letter case folded away
Minuscula(simbolo) == IF simbolo = "A" THEN "a" ELSE simbolo

normalizar_texto_minusculas(valor, placeholder) ==
    IF valor = None THEN placeholder
    ELSE LET texto == strip(valor)
         IN  IF texto = <<>> THEN placeholder
             ELSE [j \in 1..Len(texto) |-> Minuscula(texto[j])]

\* normalizar_texto(valor, texto_vacio)
normalizar_texto(valor, texto_vacio) ==
    IF valor = None THEN texto_vacio
    ELSE LET limpio == strip(valor)
         IN  IF limpio # <<>> THEN limpio ELSE texto_vacio

\* fila.get(campo): None when the field is absent from the row
Get(fila, campo) == IF campo \in DOMAIN fila THEN fila[campo] ELSE None

-----------------------------------------------------------------------------
(* Decoding: open(archivo_csv, "r", encoding=encoding, errors=errors) *)

\* does the byte decode under the encoding?
ByteValido(b, encoding) ==
    IF b = ByteE9 THEN encoding \notin {"utf-8", "utf-8-sig"} ELSE TRUE

\* the character one byte decodes to; errors="replace" substitutes U+FFFD
DecodificarByte(b, encoding) ==
    IF b = ByteE9
    THEN IF ByteValido(b, encoding) THEN "U+00E9" ELSE "U+FFFD"
    ELSE b

DecodificarTexto(t, encoding) ==
    IF t = None THEN None
    ELSE [k \in 1..Len(t) |-> DecodificarByte(t[k], encoding)]

TextoValido(t, encoding) ==
    t = None \/ \A k \in 1..Len(t) : ByteValido(t[k], encoding)

\* every byte of the file decodes under the encoding
Decodifica(lineas, encoding) ==
    \A k \in 1..Len(lineas) :
        \A c \in DOMAIN lineas[k] : TextoValido(lineas[k][c], encoding)

\* open + csv.DictReader + list: ok = FALSE stands for a raised exception
\* (OSError when the file cannot be opened, UnicodeDecodeError when
\* errors = "strict" and a byte does not decode).  A row holds the fields the
\* header names.
AbrirYLeer(f, encoding, errors) ==
    IF ~f.abre THEN [ok |-> FALSE, filas |-> <<>>]
    ELSE IF errors = "strict" /\ ~Decodifica(f.lineas, encoding)
    THEN [ok |-> FALSE, filas |-> <<>>]
    ELSE [ok |-> TRUE,
          filas |-> [k \in 1..Len(f.lineas) |->
                        [c \in f.columnas |->
                            DecodificarTexto(f.lineas[k][c], encoding)]]]

-----------------------------------------------------------------------------
(* dict, Counter and defaultdict: items in insertion order *)

Claves(d) == {d[j].k : j \in 1..Len(d)}

Indice(d, clave) == CHOOSE j \in 1..Len(d) : d[j].k = clave

\* d.get(clave, defecto)
Valor(d, clave, defecto) ==
    IF clave \in Claves(d) THEN d[Indice(d, clave)].v ELSE defecto

\* d[clave] = valor: a new key goes last, an existing key keeps its place
Poner(d, clave, valor) ==
    IF clave \in Claves(d)
    THEN [d EXCEPT ![Indice(d, clave)].v = valor]
    ELSE Append(d, [k |-> clave, v |-> valor])

\* an increment that forgets the count the key already has
IncrementarDesdeCero(counter, clave) == Poner(counter, clave, 1)

\* counter[clave] += 1 (a missing key of a Counter reads as 0)
Incrementar(counter, clave) == Poner(counter, clave, Valor(counter, clave, 0) + 1)

\* an assignment of a fresh Counter that forgets the category's earlier counts
IncrementarEnSinAcumular(d, clave, sub) ==
    Poner(d, clave, Incrementar(<<>>, sub))

\* defaultdict(Counter)[clave][sub] += 1
IncrementarEn(d, clave, sub) ==
    Poner(d, clave, Incrementar(Valor(d, clave, <<>>), sub))

\* a list that grows at the front
AgregarEnAlFrente(d, clave, x) == Poner(d, clave, <<x>> \o Valor(d, clave, <<>>))

\* defaultdict(list)[clave].append(x)
AgregarEn(d, clave, x) == Poner(d, clave, Append(Valor(d, clave, <<>>), x))

\* a lookup under the label shown for the key, which the mapping never holds
TrasBuscarEtiqueta(d, clave) ==
    LET etiqueta == clave \o <<":">>
    IN  IF etiqueta \in Claves(d) THEN d ELSE Append(d, [k |-> etiqueta, v |-> <<>>])

\* reading d[clave] of a defaultdict inserts the default for a missing key
TrasBuscar(d, clave) ==
    IF clave \in Claves(d) THEN d ELSE Append(d, [k |-> clave, v |-> <<>>])

RECURSIVE TrasBuscarTodas(_, _)
TrasBuscarTodas(d, claves) ==
    IF claves = <<>> THEN d
    ELSE TrasBuscarTodas(TrasBuscar(d, Head(claves)), Tail(claves))

\* sum(counter.values())
RECURSIVE Suma(_)
Suma(counter) ==
    IF counter = <<>> THEN 0
    ELSE counter[1].v + Suma(Tail(counter))

\* a sort that puts an item before the items of equal count
InsertarAntesDeIguales(ordenados, item) ==
    LET n == Cardinality({j \in 1..Len(ordenados) : ordenados[j].v > item.v})
    IN  SubSeq(ordenados, 1, n) \o <<item>> \o SubSeq(ordenados, n + 1, Len(ordenados))

\* one step of sorted(items, key=itemgetter(1), reverse=True): the sort is
\* stable, so an item goes after every item whose count is not smaller
InsertarOrdenado(ordenados, item) ==
    LET n == Cardinality({j \in 1..Len(ordenados) : ordenados[j].v >= item.v})
    IN  SubSeq(ordenados, 1, n) \o <<item>> \o SubSeq(ordenados, n + 1, Len(ordenados))

\* Counter.most_common()
RECURSIVE most_common(_)
most_common(counter) ==
    IF counter = <<>> THEN <<>>
    ELSE InsertarOrdenado(most_common(SubSeq(counter, 1, Len(counter) - 1)),
                          counter[Len(counter)])

\* max(valores)
RECURSIVE Maximo(_)
Maximo(valores) ==
    IF Len(valores) = 1 THEN valores[1]
    ELSE LET m == Maximo(Tail(valores))
         IN  IF valores[1] >= m THEN valores[1] ELSE m

-----------------------------------------------------------------------------
(* Floating point.  Python's float and JavaScript's Number are IEEE-754      *)
(* doubles.  A positive double is [m, e]: m the 53 bits of its significand,  *)
(* most significant first, e the exponent of the last bit, so that its value *)
(* is m * 2^e.  A bit string longer than a machine integer is kept as a      *)
(* sequence of 0s and 1s.  (Subnormals, infinities and NaN do not arise from *)
(* the quotients of counts.)                                                 *)

\* the bits of a natural number, without leading zeros
RECURSIVE BitsDe(_)
BitsDe(n) == IF n = 0 THEN <<>> ELSE Append(BitsDe(n \div 2), n % 2)

\* the natural number a bit string spells
RECURSIVE ValorDeBits(_)
ValorDeBits(bits) ==
    IF bits = <<>> THEN 0
    ELSE 2 * ValorDeBits(SubSeq(bits, 1, Len(bits) - 1)) + bits[Len(bits)]

\* bits + 1 (one bit longer when every bit is 1)
RECURSIVE MasUno(_)
MasUno(bits) ==
    IF bits = <<>> THEN <<1>>
    ELSE IF bits[Len(bits)] = 0 THEN SubSeq(bits, 1, Len(bits) - 1) \o <<1>>
    ELSE MasUno(SubSeq(bits, 1, Len(bits) - 1)) \o <<0>>

\* the double nearest to bits * 2^e, ties to the even significand
\* (bits starts with a 1)
Redondear(bits, e) ==
    IF Len(bits) <= 53
    THEN [m |-> bits \o [j \in 1..(53 - Len(bits)) |-> 0], e |-> e - (53 - Len(bits))]
    ELSE LET sobran == Len(bits) - 53
             quedan == SubSeq(bits, 1, 53)
             resto == \E j \in 55..Len(bits) : bits[j] = 1
             sube == bits[54] = 1 /\ (resto \/ quedan[53] = 1)
             m1 == IF sube THEN MasUno(quedan) ELSE quedan
         IN  IF Len(m1) = 54
             THEN [m |-> SubSeq(m1, 1, 53), e |-> e + sobran + 1]
             ELSE [m |-> m1, e |-> e + sobran]

\* the next n bits of r / d (r < d), then one bit that is 1 when a remainder
\* is left
RECURSIVE BitsDelCociente(_, _, _)
BitsDelCociente(r, d, n) ==
    IF n = 0 THEN <<IF r # 0 THEN 1 ELSE 0>>
    ELSE IF 2 * r >= d THEN <<1>> \o BitsDelCociente(2 * r - d, d, n - 1)
    ELSE <<0>> \o BitsDelCociente(2 * r, d, n - 1)

\* the largest k with d * 2^k <= n (d <= n)
RECURSIVE Log2Cociente(_, _)
Log2Cociente(n, d) == IF 2 * d <= n THEN 1 + Log2Cociente(n, 2 * d) ELSE 0

\* the smallest k with n * 2^k >= d
RECURSIVE Log2Inverso(_, _)
Log2Inverso(n, d) == IF n >= d THEN 0 ELSE 1 + Log2Inverso(2 * n, d)

RECURSIVE DosALa(_)
DosALa(k) == IF k = 0 THEN 1 ELSE 2 * DosALa(k - 1)

\* the double p / q of two positive integers: 54 bits of the quotient and a
\* sticky bit, rounded to 53
DivisionFlotante(p, q) ==
    LET sube == IF p >= q THEN Log2Cociente(p, q) ELSE 0
        baja == IF p >= q THEN 0 ELSE Log2Inverso(p, q)
        n == p * DosALa(baja)
        d == q * DosALa(sube)
    IN  Redondear(<<1>> \o BitsDelCociente(n - d, d, 53), (sube - baja) - 54)

\* the w low bits of a natural number, leading zeros kept
RECURSIVE BitsDeAncho(_, _)
BitsDeAncho(n, w) ==
    IF w = 0 THEN <<>> ELSE Append(BitsDeAncho(n \div 2, w - 1), n % 2)

\* bits * k + acarreo for a small natural k, worked 18 bits at a time from
\* the right so that every intermediate value is a machine integer
RECURSIVE BitsPorEnteroMas(_, _, _)
BitsPorEnteroMas(bits, k, acarreo) ==
    IF Len(bits) <= 18 THEN BitsDe(ValorDeBits(bits) * k + acarreo)
    ELSE LET n == Len(bits)
             bajo == ValorDeBits(SubSeq(bits, n - 17, n)) * k + acarreo
         IN  BitsPorEnteroMas(SubSeq(bits, 1, n - 18), k, bajo \div DosALa(18))
                \o BitsDeAncho(bajo % DosALa(18), 18)

BitsPorEntero(bits, k) == BitsPorEnteroMas(bits, k, 0)

\* the double x * k, for a small natural k
ProductoFlotante(x, k) == Redondear(BitsPorEntero(x.m, k), x.e)

\* x with one decimal, in tenths: the integer nearest to 10 * x, where the
\* exact value of the double decides; on an exact tie the even one
\* (Python's format) or the larger one (JavaScript's toFixed)
EnDecimas(x, empate) ==
    LET z == BitsPorEntero(x.m, 10)
        n == Len(z)
        f == 0 - x.e
        entero == IF f <= 0 THEN ValorDeBits(z) * DosALa(x.e)
                  ELSE IF f >= n THEN 0
                  ELSE ValorDeBits(SubSeq(z, 1, n - f))
        medio == IF f <= 0 \/ f > n THEN 0 ELSE z[n - f + 1]
        resto == f > n \/ (f > 0 /\ \E j \in (n - f + 2)..n : z[j] = 1)
    IN  IF medio = 0 THEN entero
        ELSE IF resto THEN entero + 1
        ELSE IF empate = "mayor" THEN entero + 1
        ELSE entero + (entero % 2)

\* the double (count / total) * 100 with one decimal, in tenths of a percent:
\* two float operations, then the rounding of the format
DecimasDelPorcentaje(count, total, empate) ==
    EnDecimas(ProductoFlotante(DivisionFlotante(count, total), 100), empate)

\* DecimasDelPorcentaje of the operands a run over MaxFilas rows can meet,
\* worked out once
DecimasConocidas ==
    [count \in 1..MaxFilas, total \in 1..MaxFilas, empate \in {"par", "mayor"} |->
        DecimasDelPorcentaje(count, total, empate)]

DecimasDe(count, total, empate) ==
    IF count = 0 THEN 0
    ELSE IF count <= MaxFilas /\ total <= MaxFilas
    THEN DecimasConocidas[count, total, empate]
    ELSE DecimasDelPorcentaje(count, total, empate)

\* (count / total) * 100 as f"{porcentaje:.1f}" prints it, in tenths of a
\* percent (an exact tie goes to the even tenth)
Porcentaje(count, total) == DecimasDe(count, total, "par")

-----------------------------------------------------------------------------
(* Inputs *)

Fila(c, s, t, y) ==
    [Category |-> c, Subcategory |-> s, TCIM_suitability_level |-> t, Year |-> y]

\* rows of a file whose header names every column, as bytes, after the CSV
\* split into fields (None: the row is too short to hold the field)
FilasCrudas ==
    { Fila(None, None, None, <<"2017">>),
      Fila(<<" ">>, <<>>, <<" ">>, <<"2021">>),
      Fila(<<"a">>, <<"x">>, <<"High">>, <<"2020">>),
      Fila(<<" ", "a", " ">>, <<"y">>, <<"Low">>, <<"2019">>),
      Fila(<<"a">>, <<" ", "x">>, <<>>, <<"2022">>),
      Fila(<<"A">>, <<"x">>, <<"Otro">>, <<>>),
      Fila(<<"a", ByteE9>>, <<"y">>, <<"Moderate">>, <<"2020">>),
      Fila(<<"a", " ", "a">>, <<>>, <<"High">>, <<"2018">>) }

Secuencias(S, n) == UNION {[1..m -> S] : m \in 0..n}

Columnas == {CATEGORY_FIELD, SUBCATEGORY_FIELD, SUITABILITY_FIELD, "Year"}

\* the header names every column, or lacks the Category column
Cabeceras == {Columnas, Columnas \ {CATEGORY_FIELD}}

ArchivosPosibles ==
    { [existe |-> FALSE, abre |-> FALSE, columnas |-> Columnas, lineas |-> <<>>],
      [existe |-> TRUE, abre |-> FALSE, columnas |-> Columnas, lineas |-> <<>>] }
    \cup UNION { { [existe |-> TRUE, abre |-> TRUE, columnas |-> h, lineas |-> l] :
                     l \in Secuencias({[c \in h |-> r[c]] : r \in FilasCrudas},
                                      MaxFilas) } :
                   h \in Cabeceras }

SinResumen == [total |-> 0, categorias |-> <<>>, detalle |-> <<>>]

SinGrafico == [nombres |-> <<>>, valores |-> <<>>, porcentajes |-> <<>>]

SinHtml ==
    [nombres |-> <<>>, stacked_data |-> <<>>, valores_totales |-> <<>>,
     porcentajes |-> <<>>, max_valor |-> 0, datos_js |-> <<>>]

SinPrevio ==
    [categorias |-> <<>>, subcategorias_por_categoria |-> <<>>,
     estudios_por_categoria |-> <<>>, suitability_por_categoria |-> <<>>]

\* the data-sort names of the th.sortable headers of the page's table
sortable == {"author", "year", "subcategory", "suitability"}

\* JavaScript's null, as the column of ordenActual
null == "null"

\* the document before a browser has opened the written page
DomCerrado ==
    [readyState |-> "cerrada",
     Plotly |-> FALSE,                           \* window.Plotly
     data |-> FALSE,                             \* plotDiv.data
     clickHandlerAdded |-> FALSE,                \* plotDiv._clickHandlerAdded
     plotly_click |-> 0,                         \* listeners on the plot
     sortHandler |-> [th \in sortable |-> FALSE],  \* th._sortHandler is set
     click |-> [th \in sortable |-> 0],          \* click listeners of th
     DOMContentLoaded |-> <<>>,                  \* listeners of the document
     timers |-> <<>>]                            \* pending setTimeout calls

OrdenInicial == [column |-> null, direction |-> "asc"]

SinVista ==
    [detalles |-> [visible |-> FALSE, titulo |-> <<>>, mensaje |-> "",
                   contenido |-> <<>>],
     tabla |-> [visible |-> FALSE, titulo |-> <<>>, mensaje |-> "",
                indicador |-> <<>>, filas |-> <<>>]]

SinClic == [tipo |-> "ninguno", objetivo |-> <<>>, llamadas |-> 0]

PaginaCerrada ==
    /\ dom = DomCerrado
    /\ estudiosActuales = <<>>
    /\ ordenActual = OrdenInicial
    /\ paneles = SinVista
    /\ clic = SinClic

Init ==
    /\ script \in {"agrupar_estudios", "grafico_interactivo_html", "contar_lineas"}
    /\ archivo \in ArchivosPosibles
    /\ DISPONIBLE \in (IF script = "contar_lineas" THEN {TRUE} ELSE BOOLEAN)
    /\ pc = "inicio"
    /\ enc = 1
    /\ intentos = <<>>
    /\ filas = <<>>
    /\ i = 1
    /\ categorias = <<>>
    /\ subcategorias_por_categoria = <<>>
    /\ estudios_por_categoria = <<>>
    /\ suitability_por_categoria = <<>>
    /\ stdout = <<>>
    /\ resumen = SinResumen
    /\ grafico = SinGrafico
    /\ html = SinHtml
    /\ escritos = {}
    /\ exit_code = <<>>
    /\ total_lineas = 0
    /\ corrida = 1
    /\ previo = SinPrevio
    /\ PaginaCerrada

acumuladores ==
    <<categorias, subcategorias_por_categoria, estudios_por_categoria,
      suitability_por_categoria>>

salidas == <<resumen, grafico, html, escritos, total_lineas>>

\* the page as the browser holds it
pagina == <<dom, estudiosActuales, ordenActual, paneles, clic>>

entorno == <<script, archivo, DISPONIBLE, corrida, previo, pagina>>

-----------------------------------------------------------------------------
(* leer_csv (agrupar_estudios.py and grafico_interactivo_html.py) *)

ConLeerCsv == script \in {"agrupar_estudios", "grafico_interactivo_html"}

\* the missing file is reported, and the run goes on to the encoding loop
LeerCsvNoExisteSinSalir ==
    /\ ConLeerCsv /\ pc = "inicio"
    /\ ~archivo.existe
    /\ stdout' = Append(stdout, "Error: El archivo no existe.")
    /\ pc' = "leer"
    /\ UNCHANGED <<entorno, enc, intentos, filas, i, acumuladores, salidas,
                   exit_code>>

\* if not os.path.exists(archivo_csv): print error; sys.exit(1)
LeerCsvNoExiste ==
    /\ ConLeerCsv /\ pc = "inicio"
    /\ ~archivo.existe
    /\ stdout' = Append(stdout, "Error: El archivo no existe.")
    /\ exit_code' = <<1>>
    /\ pc' = "fin"
    /\ UNCHANGED <<entorno, enc, intentos, filas, i, acumuladores, salidas>>

LeerCsvExiste ==
    /\ ConLeerCsv /\ pc = "inicio"
    /\ archivo.existe
    /\ pc' = "leer"
    /\ UNCHANGED <<entorno, enc, intentos, filas, i, acumuladores, salidas,
                   stdout, exit_code>>

\* one turn of "for encoding in ENCODINGS" whose open and read succeed
LeerCsvIntentoOk ==
    /\ ConLeerCsv /\ pc = "leer"
    /\ enc <= Len(ENCODINGS)
    /\ LET r == AbrirYLeer(archivo, ENCODINGS[enc], "replace")
       IN  /\ r.ok
           /\ filas' = r.filas
    /\ intentos' = Append(intentos, ENCODINGS[enc])
    /\ pc' = "leido"
    /\ UNCHANGED <<entorno, enc, i, acumuladores, salidas, stdout, exit_code>>

\* one turn whose open or read raises: except ...: continue
LeerCsvIntentoFalla ==
    /\ ConLeerCsv /\ pc = "leer"
    /\ enc <= Len(ENCODINGS)
    /\ ~AbrirYLeer(archivo, ENCODINGS[enc], "replace").ok
    /\ intentos' = Append(intentos, ENCODINGS[enc])
    /\ enc' = enc + 1
    /\ UNCHANGED <<entorno, pc, filas, i, acumuladores, salidas, stdout, exit_code>>

\* the loop ran out of encodings: print error, and return no rows
LeerCsvAgotadoSinSalir ==
    /\ ConLeerCsv /\ pc = "leer"
    /\ enc > Len(ENCODINGS)
    /\ stdout' = Append(stdout, "Error: No se pudo leer el archivo con las codificaciones probadas.")
    /\ filas' = <<>>
    /\ pc' = "leido"
    /\ UNCHANGED <<entorno, enc, intentos, i, acumuladores, salidas, exit_code>>

\* the loop ran out of encodings: print error; sys.exit(1)
LeerCsvAgotado ==
    /\ ConLeerCsv /\ pc = "leer"
    /\ enc > Len(ENCODINGS)
    /\ stdout' = Append(stdout, "Error: No se pudo leer el archivo con las codificaciones probadas.")
    /\ exit_code' = <<1>>
    /\ pc' = "fin"
    /\ UNCHANGED <<entorno, enc, intentos, filas, i, acumuladores, salidas>>

-----------------------------------------------------------------------------
(* main up to the call of agrupar_estudios *)

\* the notice main prints for a file without data rows
AvisoSinDatos ==
    IF script = "agrupar_estudios" THEN "El archivo no contiene datos."
    ELSE "The file contains no data."

\* the notice printed, but main goes on to group and render
MainSinDatosSigue ==
    /\ ConLeerCsv /\ pc = "leido"
    /\ filas = <<>>
    /\ stdout' = Append(stdout, AvisoSinDatos)
    /\ pc' = "llamar_agrupar"
    /\ UNCHANGED <<entorno, enc, intentos, filas, i, acumuladores, salidas,
                   exit_code>>

\* if not filas: print(...); return
MainSinDatos ==
    /\ ConLeerCsv /\ pc = "leido"
    /\ filas = <<>>
    /\ stdout' = Append(stdout, AvisoSinDatos)
    /\ exit_code' = <<0>>
    /\ pc' = "fin"
    /\ UNCHANGED <<entorno, enc, intentos, filas, i, acumuladores, salidas>>

MainConDatos ==
    /\ ConLeerCsv /\ pc = "leido"
    /\ filas # <<>>
    /\ pc' = "llamar_agrupar"
    /\ UNCHANGED <<entorno, enc, intentos, filas, i, acumuladores, salidas,
                   stdout, exit_code>>

-----------------------------------------------------------------------------
(* agrupar_estudios *)

\* accumulators that outlive the call instead of being created by it
AgruparInicioSinCrear ==
    /\ ConLeerCsv /\ pc = "llamar_agrupar"
    /\ i' = 1
    /\ pc' = "bucle"
    /\ UNCHANGED <<entorno, enc, intentos, filas, acumuladores, salidas,
                   stdout, exit_code>>

\* accumulators created with the placeholder buckets already in them
AgruparInicioConSemilla ==
    /\ ConLeerCsv /\ pc = "llamar_agrupar"
    /\ categorias' = <<[k |-> <<"Sin categoría">>, v |-> 0]>>
    /\ subcategorias_por_categoria' = <<[k |-> <<"Sin categoría">>, v |-> <<>>]>>
    /\ estudios_por_categoria' = <<>>
    /\ suitability_por_categoria' = <<>>
    /\ i' = 1
    /\ pc' = "bucle"
    /\ UNCHANGED <<entorno, enc, intentos, filas, salidas, stdout, exit_code>>

\* categorias = Counter(); ... = defaultdict(Counter); defaultdict(list); ...
AgruparInicio ==
    /\ ConLeerCsv /\ pc = "llamar_agrupar"
    /\ categorias' = <<>>
    /\ subcategorias_por_categoria' = <<>>
    /\ estudios_por_categoria' = <<>>
    /\ suitability_por_categoria' = <<>>
    /\ i' = 1
    /\ pc' = "bucle"
    /\ UNCHANGED <<entorno, enc, intentos, filas, salidas, stdout, exit_code>>

Categoria(fila) == normalizar_texto(Get(fila, CATEGORY_FIELD), <<"Sin categoría">>)

Subcategoria(fila) ==
    normalizar_texto(Get(fila, SUBCATEGORY_FIELD), <<"Sin subcategoría">>)

Suitability(fila) ==
    normalizar_texto(Get(fila, SUITABILITY_FIELD), <<"Not applicable">>)

\* one turn of "for fila in filas"
AgruparPaso ==
    /\ ConLeerCsv /\ pc = "bucle"
    /\ i <= Len(filas)
    /\ LET fila == filas[i]
           categoria == Categoria(fila)
           subcategoria == Subcategoria(fila)
           suitability == Suitability(fila)
       IN  /\ categorias' = Incrementar(categorias, categoria)
           /\ subcategorias_por_categoria' =
                  IncrementarEn(subcategorias_por_categoria, categoria, subcategoria)
           /\ IF script = "grafico_interactivo_html"
              THEN /\ estudios_por_categoria' =
                          AgregarEn(estudios_por_categoria, categoria, fila)
                   /\ suitability_por_categoria' =
                          IncrementarEn(suitability_por_categoria, categoria, suitability)
              ELSE UNCHANGED <<estudios_por_categoria, suitability_por_categoria>>
    /\ i' = i + 1
    /\ UNCHANGED <<entorno, pc, enc, intentos, filas, salidas, stdout, exit_code>>

\* return categorias, subcategorias_por_categoria, ...
AgruparRetorno ==
    /\ ConLeerCsv /\ pc = "bucle"
    /\ i > Len(filas)
    /\ pc' = "retornado"
    /\ UNCHANGED <<entorno, enc, intentos, filas, i, acumuladores, salidas,
                   stdout, exit_code>>

Resultado ==
    [categorias |-> categorias,
     subcategorias_por_categoria |-> subcategorias_por_categoria,
     estudios_por_categoria |-> estudios_por_categoria,
     suitability_por_categoria |-> suitability_por_categoria]

\* a caller that calls agrupar_estudios(filas) again on the rows it holds
Reejecutar ==
    /\ pc = "retornado"
    /\ corrida = 1
    /\ previo' = Resultado
    /\ corrida' = 2
    /\ pc' = "llamar_agrupar"
    /\ UNCHANGED <<script, archivo, DISPONIBLE, enc, intentos, filas, i,
                   acumuladores, salidas, stdout, exit_code, pagina>>

-----------------------------------------------------------------------------
(* imprimir_resumen and crear_grafico_barras (agrupar_estudios.py) *)

\* the (key, count) pairs of a ranked view, each with its printed percentage;
\* "if total else 0" guards the division
ConPorcentaje(ordenados, total) ==
    [j \in 1..Len(ordenados) |->
        [k |-> ordenados[j].k, v |-> ordenados[j].v,
         porcentaje |-> IF total # 0 THEN Porcentaje(ordenados[j].v, total) ELSE 0]]

SoloClaves(ordenados) == [j \in 1..Len(ordenados) |-> ordenados[j].k]

SoloValores(ordenados) == [j \in 1..Len(ordenados) |-> ordenados[j].v]

ImprimirResumen ==
    /\ script = "agrupar_estudios" /\ pc = "retornado"
    /\ LET total == Suma(categorias)
           orden == most_common(categorias)
       IN  /\ resumen' =
                [total |-> total,
                 categorias |-> ConPorcentaje(orden, total),
                 detalle |->
                    [j \in 1..Len(orden) |->
                        [categoria |-> orden[j].k,
                         estudios |-> Valor(categorias, orden[j].k, 0),
                         subcategorias |->
                            ConPorcentaje(
                                most_common(Valor(subcategorias_por_categoria,
                                                  orden[j].k, <<>>)),
                                Valor(categorias, orden[j].k, 0))]]]
           /\ subcategorias_por_categoria' =
                TrasBuscarTodas(subcategorias_por_categoria, SoloClaves(orden))
    /\ stdout' = Append(stdout, "Total de estudios analizados")
    /\ pc' = "grafico"
    /\ UNCHANGED <<entorno, enc, intentos, filas, i, categorias,
                   estudios_por_categoria, suitability_por_categoria,
                   grafico, html, escritos, total_lineas, exit_code>>

\* the missing charting library treated as a fatal error
CrearGraficoSinMatplotlibFatal ==
    /\ script = "agrupar_estudios" /\ pc = "grafico"
    /\ ~DISPONIBLE
    /\ stdout' = Append(stdout, "Matplotlib no está instalado.")
    /\ exit_code' = <<1>>
    /\ pc' = "fin"
    /\ UNCHANGED <<entorno, enc, intentos, filas, i, acumuladores, salidas>>

\* if not MATPLOTLIB_DISPONIBLE: print warning; return
CrearGraficoSinMatplotlib ==
    /\ script = "agrupar_estudios" /\ pc = "grafico"
    /\ ~DISPONIBLE
    /\ stdout' = Append(stdout, "Matplotlib no está instalado.")
    /\ exit_code' = <<0>>
    /\ pc' = "fin"
    /\ UNCHANGED <<entorno, enc, intentos, filas, i, acumuladores, salidas>>

CrearGraficoBarras ==
    /\ script = "agrupar_estudios" /\ pc = "grafico"
    /\ DISPONIBLE
    /\ LET categorias_ordenadas == most_common(categorias)
           nombres == SoloClaves(categorias_ordenadas)
           valores == SoloValores(categorias_ordenadas)
       IN  grafico' =
              [nombres |-> nombres,
               valores |-> valores,
               porcentajes |->
                  [j \in 1..Len(valores) |->
                      Porcentaje(valores[j], Suma(categorias_ordenadas))]]
    /\ escritos' = escritos \cup {"grafico_categorias.png"}
    /\ stdout' = Append(stdout, "Gráfico guardado")
    /\ exit_code' = <<0>>
    /\ pc' = "fin"
    /\ UNCHANGED <<entorno, enc, intentos, filas, i, acumuladores, resumen,
                   html, total_lineas>>

-----------------------------------------------------------------------------
(* crear_grafico_html_interactivo (grafico_interactivo_html.py) *)

suitability_levels == <<<<"High">>, <<"Moderate">>, <<"Low">>, <<"Not applicable">>>>

\* estudio.get(campo, defecto)
GetDef(fila, campo, defecto) ==
    IF campo \in DOMAIN fila THEN fila[campo] ELSE defecto

\* one entry of estudios_lista
EstudioJs(estudio) ==
    [title |-> normalizar_texto(GetDef(estudio, "Title", <<>>), <<"[Sin título]">>),
     author |-> normalizar_texto(GetDef(estudio, "Author", <<>>), <<"[Sin autor]">>),
     year |-> normalizar_texto(GetDef(estudio, "Year", <<>>), <<"[Sin año]">>),
     subcategory |->
        normalizar_texto(GetDef(estudio, "Subcategory", <<>>), <<"[Sin subcategoría]">>),
     suitability |->
        normalizar_texto(GetDef(estudio, "TCIM_suitability_level", <<>>), <<"N/A">>)]

\* if not PLOTLY_DISPONIBLE: print warning; return
CrearHtmlSinPlotly ==
    /\ script = "grafico_interactivo_html" /\ pc = "retornado"
    /\ ~DISPONIBLE
    /\ stdout' = Append(stdout, "Plotly is not installed.")
    /\ exit_code' = <<0>>
    /\ pc' = "fin"
    /\ UNCHANGED <<entorno, enc, intentos, filas, i, acumuladores, salidas>>

CrearGraficoHtml ==
    /\ script = "grafico_interactivo_html" /\ pc = "retornado"
    /\ DISPONIBLE
    /\ LET categorias_ordenadas == most_common(categorias)
           nombres == SoloClaves(categorias_ordenadas)
           total == Suma(categorias_ordenadas)
           valores_totales ==
              [j \in 1..Len(nombres) |-> Valor(categorias, nombres[j], 0)]
       IN  /\ html' =
                [nombres |-> nombres,
                 stacked_data |->
                    [l \in 1..Len(suitability_levels) |->
                        [level |-> suitability_levels[l],
                         counts |->
                            [j \in 1..Len(nombres) |->
                                Valor(Valor(suitability_por_categoria, nombres[j], <<>>),
                                      suitability_levels[l], 0)]]],
                 valores_totales |-> valores_totales,
                 porcentajes |->
                    [j \in 1..Len(nombres) |-> Porcentaje(valores_totales[j], total)],
                 max_valor |-> Maximo(valores_totales),
                 datos_js |->
                    [j \in 1..Len(nombres) |->
                        [k |-> nombres[j],
                         v |-> [subcategorias |->
                                   most_common(Valor(subcategorias_por_categoria,
                                                     nombres[j], <<>>)),
                                total |-> Valor(categorias, nombres[j], 0),
                                estudios |->
                                   LET estudios_categoria ==
                                          Valor(estudios_por_categoria, nombres[j], <<>>)
                                   IN  [e \in 1..Len(estudios_categoria) |->
                                           EstudioJs(estudios_categoria[e])]]]]]
           /\ suitability_por_categoria' =
                TrasBuscarTodas(suitability_por_categoria, nombres)
           /\ subcategorias_por_categoria' =
                TrasBuscarTodas(subcategorias_por_categoria, nombres)
           /\ estudios_por_categoria' =
                TrasBuscarTodas(estudios_por_categoria, nombres)
    /\ escritos' = escritos \cup {"docs/grafico_interactivo.html"}
    /\ stdout' = Append(stdout, "Interactive HTML chart generated")
    /\ exit_code' = <<0>>
    /\ pc' = "fin"
    /\ UNCHANGED <<entorno, enc, intentos, filas, i, categorias, resumen,
                   grafico, total_lineas>>

-----------------------------------------------------------------------------
(* contar_lineas.py *)

ConContar == script = "contar_lineas"

\* __main__: if not os.path.exists(archivo): print error; sys.exit(1)
ContarNoExiste ==
    /\ ConContar /\ pc = "inicio"
    /\ ~archivo.existe
    /\ stdout' = Append(stdout, "Error: El archivo no existe en el directorio actual.")
    /\ exit_code' = <<1>>
    /\ pc' = "fin"
    /\ UNCHANGED <<entorno, enc, intentos, filas, i, acumuladores, salidas>>

ContarExiste ==
    /\ ConContar /\ pc = "inicio"
    /\ archivo.existe
    /\ pc' = "leer"
    /\ UNCHANGED <<entorno, enc, intentos, filas, i, acumuladores, salidas,
                   stdout, exit_code>>

\* the file holds the header line and one line per row
LineasDe(f) == 1 + Len(f.lineas)

\* one turn of "for encoding in codificaciones" that counts the lines
ContarIntentoOk ==
    /\ ConContar /\ pc = "leer"
    /\ enc <= Len(codificaciones)
    /\ AbrirYLeer(archivo, codificaciones[enc], "replace").ok
    /\ intentos' = Append(intentos, codificaciones[enc])
    /\ total_lineas' = LineasDe(archivo)
    /\ pc' = "contado"
    /\ UNCHANGED <<entorno, enc, filas, i, acumuladores, resumen, grafico, html,
                   escritos, stdout, exit_code>>

\* one turn that raises: FileNotFoundError ends the run, anything else continues
ContarIntentoFalla ==
    /\ ConContar /\ pc = "leer"
    /\ enc <= Len(codificaciones)
    /\ ~AbrirYLeer(archivo, codificaciones[enc], "replace").ok
    /\ intentos' = Append(intentos, codificaciones[enc])
    /\ IF ~archivo.existe
       THEN /\ stdout' = Append(stdout, "Error: No se encontró el archivo")
            /\ exit_code' = <<1>>
            /\ pc' = "fin"
            /\ UNCHANGED enc
       ELSE /\ enc' = enc + 1
            /\ UNCHANGED <<stdout, exit_code, pc>>
    /\ UNCHANGED <<entorno, filas, i, acumuladores, salidas>>

\* no encoding worked: count the lines in binary mode, or print error; sys.exit(1)
ContarBinario ==
    /\ ConContar /\ pc = "leer"
    /\ enc > Len(codificaciones)
    /\ IF archivo.abre
       THEN /\ total_lineas' = LineasDe(archivo)
            /\ pc' = "contado"
            /\ UNCHANGED <<stdout, exit_code>>
       ELSE /\ stdout' = Append(stdout, "Error al leer el archivo")
            /\ exit_code' = <<1>>
            /\ pc' = "fin"
            /\ UNCHANGED total_lineas
    /\ UNCHANGED <<entorno, enc, intentos, filas, i, acumuladores, resumen,
                   grafico, html, escritos>>

\* print the total and the number of data rows
ContarImprime ==
    /\ ConContar /\ pc = "contado"
    /\ stdout' = Append(stdout, "El archivo contiene líneas en total.")
    /\ exit_code' = <<0>>
    /\ pc' = "fin"
    /\ UNCHANGED <<entorno, enc, intentos, filas, i, acumuladores, salidas>>

-----------------------------------------------------------------------------
(* Specifications *)

Next ==
    \/ LeerCsvNoExiste
    \/ LeerCsvExiste
    \/ LeerCsvIntentoOk
    \/ LeerCsvIntentoFalla
    \/ LeerCsvAgotado
    \/ MainSinDatos
    \/ MainConDatos
    \/ AgruparInicio
    \/ AgruparPaso
    \/ AgruparRetorno
    \/ ImprimirResumen
    \/ CrearGraficoSinMatplotlib
    \/ CrearGraficoBarras
    \/ CrearHtmlSinPlotly
    \/ CrearGraficoHtml
    \/ ContarNoExiste
    \/ ContarExiste
    \/ ContarIntentoOk
    \/ ContarIntentoFalla
    \/ ContarBinario
    \/ ContarImprime

Spec == Init /\ [][Next]_vars

\* agrupar_estudios(filas) called twice on the rows leer_csv returned
InitRerun ==
    /\ script \in {"agrupar_estudios", "grafico_interactivo_html"}
    /\ archivo \in {f \in ArchivosPosibles : f.abre}
    /\ DISPONIBLE = TRUE
    /\ pc = "llamar_agrupar"
    /\ enc = 1
    /\ intentos = <<ENCODINGS[1]>>
    /\ filas = AbrirYLeer(archivo, ENCODINGS[1], "replace").filas
    /\ i = 1
    /\ categorias = <<>>
    /\ subcategorias_por_categoria = <<>>
    /\ estudios_por_categoria = <<>>
    /\ suitability_por_categoria = <<>>
    /\ stdout = <<>>
    /\ resumen = SinResumen
    /\ grafico = SinGrafico
    /\ html = SinHtml
    /\ escritos = {}
    /\ exit_code = <<>>
    /\ total_lineas = 0
    /\ corrida = 1
    /\ previo = SinPrevio
    /\ PaginaCerrada

NextRerun ==
    \/ AgruparInicio
    \/ AgruparPaso
    \/ AgruparRetorno
    \/ Reejecutar

SpecRerun == InitRerun /\ [][NextRerun]_vars

-----------------------------------------------------------------------------
(* Properties of agrupar_estudios *)

\* the call has returned and its result is still held
Agrupado ==
    /\ ConLeerCsv
    /\ \/ pc \in {"retornado", "grafico"}
       \/ pc = "fin" /\ exit_code = <<0>> /\ filas # <<>>

\* rows the loop has processed so far
Procesadas == IF pc = "bucle" THEN i - 1 ELSE Len(filas)

EnAgrupacion == (ConLeerCsv /\ pc = "bucle") \/ Agrupado

\* a raw field value that is None, empty or whitespace only
EsBlanco(valor) ==
    valor = None \/ \A j \in 1..Len(valor) : valor[j] \in Espacios

\* C1: the category counts sum to the number of records processed so far,
\* and to the number of input records once agrupar_estudios has returned.
C1_SumaCategorias ==
    EnAgrupacion => Suma(categorias) = Procesadas

C1_Witness ==
    /\ pc = "retornado"
    /\ Len(filas) >= 3
    /\ \E j \in 1..Len(filas) : EsBlanco(Get(filas[j], CATEGORY_FIELD))
    /\ \E j \in 1..Len(categorias) : categorias[j].v >= 2
    /\ Suma(categorias) = Len(filas)

\* C2: for every category, its subcategory counts sum to its category count
\* and, in the interactive script, to the length of its record list.
C2_SumaSubcategorias ==
    EnAgrupacion =>
        \A c \in Claves(categorias) :
            /\ Suma(Valor(subcategorias_por_categoria, c, <<>>))
                   = Valor(categorias, c, 0)
            /\ script = "grafico_interactivo_html" =>
                   Len(Valor(estudios_por_categoria, c, <<>>))
                       = Valor(categorias, c, 0)

C2_Witness ==
    /\ pc = "retornado"
    /\ script = "grafico_interactivo_html"
    /\ \E c \in Claves(categorias) :
          /\ Valor(categorias, c, 0) >= 3
          /\ Len(Valor(subcategorias_por_categoria, c, <<>>)) >= 2
          /\ Len(Valor(estudios_por_categoria, c, <<>>)) = Valor(categorias, c, 0)

\* the categories and subcategories the processed rows normalize to
CategoriasVistas == {Categoria(filas[j]) : j \in 1..Procesadas}

SubcategoriasVistas(c) ==
    {Subcategoria(filas[j]) : j \in {n \in 1..Procesadas : Categoria(filas[n]) = c}}

SuitabilityVistas(c) ==
    {Suitability(filas[j]) : j \in {n \in 1..Procesadas : Categoria(filas[n]) = c}}

SinRepetidas(d) == Cardinality(Claves(d)) = Len(d)

\* C3: the keys of every mapping are exactly the normalized values observed,
\* each key once, and every stored count is at least 1.
C3_ClavesObservadas ==
    EnAgrupacion =>
        /\ Claves(categorias) = CategoriasVistas
        /\ Claves(subcategorias_por_categoria) = CategoriasVistas
        /\ SinRepetidas(categorias) /\ SinRepetidas(subcategorias_por_categoria)
        /\ \A j \in 1..Len(categorias) : categorias[j].v >= 1
        /\ \A c \in CategoriasVistas :
              LET subs == Valor(subcategorias_por_categoria, c, <<>>)
              IN  /\ Claves(subs) = SubcategoriasVistas(c)
                  /\ SinRepetidas(subs)
                  /\ \A j \in 1..Len(subs) : subs[j].v >= 1
        /\ script = "grafico_interactivo_html" =>
              /\ Claves(estudios_por_categoria) = CategoriasVistas
              /\ Claves(suitability_por_categoria) = CategoriasVistas
              /\ SinRepetidas(estudios_por_categoria)
              /\ SinRepetidas(suitability_por_categoria)
              /\ \A c \in CategoriasVistas :
                    LET niveles == Valor(suitability_por_categoria, c, <<>>)
                    IN  /\ Valor(estudios_por_categoria, c, <<>>) # <<>>
                        /\ Claves(niveles) = SuitabilityVistas(c)
                        /\ SinRepetidas(niveles)
                        /\ \A j \in 1..Len(niveles) : niveles[j].v >= 1

C3_Witness ==
    /\ pc = "retornado"
    /\ script = "grafico_interactivo_html"
    /\ Cardinality(CategoriasVistas) >= 2
    /\ <<"Sin categoría">> \notin CategoriasVistas
    /\ \E c \in CategoriasVistas : Cardinality(SubcategoriasVistas(c)) >= 2
    /\ Claves(categorias) = CategoriasVistas

\* the buckets of a defaultdict(Counter) as a set of (key, subkey) pairs
Cubetas(d) ==
    UNION {{<<c, s>> : s \in Claves(Valor(d, c, <<>>))} : c \in Claves(d)}

EnCubeta(d, b) == Valor(Valor(d, b[1], <<>>), b[2], 0)

\* C4: a loop turn on a record whose Category is absent, None, empty or
\* whitespace only adds exactly 1 to "Sin categoría" and changes no other
\* category count; a blank Subcategory adds 1 only to the
\* "Sin subcategoría" bucket of the record's category.
C4_Placeholder ==
    [][ (ConLeerCsv /\ pc = "bucle" /\ i <= Len(filas) /\ i' = i + 1) =>
          LET fila == filas[i] IN
          /\ EsBlanco(Get(fila, CATEGORY_FIELD)) =>
                /\ Valor(categorias', <<"Sin categoría">>, 0)
                       = Valor(categorias, <<"Sin categoría">>, 0) + 1
                /\ \A c \in (Claves(categorias) \cup Claves(categorias'))
                               \ {<<"Sin categoría">>} :
                       Valor(categorias', c, 0) = Valor(categorias, c, 0)
          /\ EsBlanco(Get(fila, SUBCATEGORY_FIELD)) =>
                \E c \in Claves(categorias') :
                    /\ Valor(categorias', c, 0) = Valor(categorias, c, 0) + 1
                    /\ LET b == <<c, <<"Sin subcategoría">>>> IN
                       /\ EnCubeta(subcategorias_por_categoria', b)
                              = EnCubeta(subcategorias_por_categoria, b) + 1
                       /\ \A o \in (Cubetas(subcategorias_por_categoria)
                                      \cup Cubetas(subcategorias_por_categoria'))
                                   \ {b} :
                              EnCubeta(subcategorias_por_categoria', o)
                                  = EnCubeta(subcategorias_por_categoria, o)
      ]_vars

\* a whitespace-only Category and a row without the Category field have both
\* been counted, next to a category of its own
C4_Witness ==
    /\ pc = "retornado"
    /\ \E j \in 1..Len(filas) : Get(filas[j], CATEGORY_FIELD) = <<" ">>
    /\ \E j \in 1..Len(filas) :
          /\ Get(filas[j], CATEGORY_FIELD) = None
          /\ Get(filas[j], SUBCATEGORY_FIELD) = None
    /\ Valor(categorias, <<"Sin categoría">>, 0) >= 2
    /\ Valor(categorias, <<"a">>, 0) >= 1

-----------------------------------------------------------------------------
(* Properties of the ranked views *)

\* index of the first input row counted under category c
PrimeraDeCategoria(c) ==
    CHOOSE j \in 1..Len(filas) :
        /\ Categoria(filas[j]) = c
        /\ \A m \in 1..(j - 1) : Categoria(filas[m]) # c

\* index of the first input row counted under subcategory s of category c
PrimeraDeSubcategoria(c, s) ==
    CHOOSE j \in 1..Len(filas) :
        /\ Categoria(filas[j]) = c /\ Subcategoria(filas[j]) = s
        /\ \A m \in 1..(j - 1) :
              ~(Categoria(filas[m]) = c /\ Subcategoria(filas[m]) = s)

Items(d) == {[k |-> d[j].k, v |-> d[j].v] : j \in 1..Len(d)}

\* the view lists the items of the counter, each once
EsVistaDe(vista, counter) ==
    Len(vista) = Len(counter) /\ Items(vista) = Items(counter)

\* counts never increase along the view
NoCreciente(vista) ==
    \A a, b \in 1..Len(vista) : a < b => vista[a].v >= vista[b].v

VistaCategoriasOk(vista) ==
    /\ EsVistaDe(vista, categorias)
    /\ NoCreciente(vista)
    /\ \A a, b \in 1..Len(vista) :
          (a < b /\ vista[a].v = vista[b].v) =>
              PrimeraDeCategoria(vista[a].k) < PrimeraDeCategoria(vista[b].k)

VistaSubcategoriasOk(c, vista) ==
    /\ EsVistaDe(vista, Valor(subcategorias_por_categoria, c, <<>>))
    /\ NoCreciente(vista)
    /\ \A a, b \in 1..Len(vista) :
          (a < b /\ vista[a].v = vista[b].v) =>
              PrimeraDeSubcategoria(c, vista[a].k)
                  < PrimeraDeSubcategoria(c, vista[b].k)

Pares(claves, valores) ==
    [j \in 1..Len(claves) |-> [k |-> claves[j], v |-> valores[j]]]

SinPorcentaje(vista) ==
    [j \in 1..Len(vista) |-> [k |-> vista[j].k, v |-> vista[j].v]]

ResumenImpreso == script = "agrupar_estudios" /\ pc \in {"grafico", "fin"} /\ Agrupado

GraficoGuardado == "grafico_categorias.png" \in escritos

HtmlEscrito == "docs/grafico_interactivo.html" \in escritos

\* C5: every ranked view a renderer built (the two category listings and
\* the per-category subcategory listings of the summary, the bars of the
\* chart, the bars and the per-category subcategory lists of the HTML page)
\* lists the counter's items by non-increasing count, equal counts in the
\* order their keys were first seen in the input.
C5_VistasOrdenadas ==
    /\ ResumenImpreso =>
          /\ VistaCategoriasOk(SinPorcentaje(resumen.categorias))
          /\ VistaCategoriasOk(
                [j \in 1..Len(resumen.detalle) |->
                    [k |-> resumen.detalle[j].categoria,
                     v |-> resumen.detalle[j].estudios]])
          /\ \A j \in 1..Len(resumen.detalle) :
                VistaSubcategoriasOk(resumen.detalle[j].categoria,
                                     SinPorcentaje(resumen.detalle[j].subcategorias))
    /\ GraficoGuardado =>
          VistaCategoriasOk(Pares(grafico.nombres, grafico.valores))
    /\ HtmlEscrito =>
          /\ VistaCategoriasOk(Pares(html.nombres, html.valores_totales))
          /\ Len(html.datos_js) = Len(html.nombres)
          /\ \A j \in 1..Len(html.datos_js) :
                /\ html.datos_js[j].k = html.nombres[j]
                /\ VistaSubcategoriasOk(html.datos_js[j].k,
                                        html.datos_js[j].v.subcategorias)

\* the summary ranks a later-seen category first, and lists two
\* subcategories of equal count
C5_Witness ==
    /\ ResumenImpreso /\ GraficoGuardado
    /\ Len(resumen.categorias) >= 2
    /\ SoloClaves(resumen.categorias) # SoloClaves(categorias)
    /\ grafico.nombres = SoloClaves(resumen.categorias)
    /\ \E j \in 1..Len(resumen.detalle) :
          LET subs == resumen.detalle[j].subcategorias
          IN  Len(subs) >= 2 /\ subs[1].v = subs[2].v

-----------------------------------------------------------------------------
(* Properties of repeated and of whole runs *)

\* the ranked orderings derived from a result
Ranking(r) ==
    [categorias |-> most_common(r.categorias),
     subcategorias |->
        [j \in 1..Len(r.subcategorias_por_categoria) |->
            [k |-> r.subcategorias_por_categoria[j].k,
             v |-> most_common(r.subcategorias_por_categoria[j].v)]],
     suitability |->
        [j \in 1..Len(r.suitability_por_categoria) |->
            [k |-> r.suitability_por_categoria[j].k,
             v |-> most_common(r.suitability_por_categoria[j].v)]]]

\* C6: a second call of agrupar_estudios on the same rows returns the
\* category counts, subcategory counts, record lists and suitability counts
\* the first call returned, and the same ranked orderings.
C6_Determinista ==
    (corrida = 2 /\ pc = "retornado") =>
        /\ Resultado = previo
        /\ Ranking(Resultado) = Ranking(previo)

C6_Witness ==
    /\ corrida = 2 /\ pc = "retornado"
    /\ script = "grafico_interactivo_html"
    /\ Len(filas) >= 3
    /\ Len(categorias) >= 2
    /\ Resultado = previo

\* C7: in the interactive script the record list of category c is the
\* subsequence of the processed input rows whose normalized Category is c,
\* in input order, each row once and unchanged.
C7_EstudiosEnOrden ==
    (EnAgrupacion /\ script = "grafico_interactivo_html") =>
        \A c \in CategoriasVistas \cup Claves(estudios_por_categoria) :
            Valor(estudios_por_categoria, c, <<>>)
                = SelectSeq(SubSeq(filas, 1, Procesadas),
                            LAMBDA fila : Categoria(fila) = c)

\* a category holds two different rows, with a row of another category
\* between them in the input
C7_Witness ==
    /\ pc = "retornado" /\ script = "grafico_interactivo_html"
    /\ Len(filas) >= 3
    /\ Categoria(filas[1]) = Categoria(filas[3])
    /\ Categoria(filas[1]) # Categoria(filas[2])
    /\ filas[1] # filas[3]
    /\ Valor(estudios_por_categoria, Categoria(filas[1]), <<>>)
           = <<filas[1], filas[3]>>

\* nothing has been read, grouped, printed as a summary, plotted or written
NadaProcesado ==
    /\ intentos = <<>> /\ filas = <<>>
    /\ categorias = <<>> /\ subcategorias_por_categoria = <<>>
    /\ estudios_por_categoria = <<>> /\ suitability_por_categoria = <<>>
    /\ resumen = SinResumen /\ grafico = SinGrafico /\ html = SinHtml
    /\ escritos = {} /\ total_lineas = 0

\* C8: when the input file does not exist, the run goes from its start
\* straight to its end with exit status 1: no read is attempted, no row is
\* grouped, no summary is printed and no chart or HTML file is written.
C8_ArchivoInexistente ==
    ~archivo.existe =>
        /\ pc \in {"inicio", "fin"}
        /\ NadaProcesado
        /\ pc = "fin" => (exit_code = <<1>> /\ Len(stdout) = 1)
        /\ pc = "inicio" => (exit_code = <<>> /\ stdout = <<>>)

C8_Witness ==
    /\ ~archivo.existe
    /\ script = "grafico_interactivo_html"
    /\ DISPONIBLE
    /\ pc = "fin"
    /\ exit_code = <<1>>

\* every one of the configured encodings fails to read the file
NingunaCodificacionLee ==
    \A e \in 1..Len(ENCODINGS) : ~AbrirYLeer(archivo, ENCODINGS[e], "replace").ok

\* C9: when the file exists and the read fails under every configured
\* encoding, leer_csv ends the run with exit status 1 after trying them all:
\* no rows are returned, nothing is grouped and no output file is written.
C9_NingunaCodificacion ==
    (ConLeerCsv /\ archivo.existe /\ NingunaCodificacionLee) =>
        /\ pc \in {"inicio", "leer", "fin"}
        /\ filas = <<>> /\ categorias = <<>>
        /\ resumen = SinResumen /\ escritos = {}
        /\ pc = "fin" => (exit_code = <<1>> /\ intentos = ENCODINGS)
        /\ pc # "fin" => exit_code = <<>>

C9_Witness ==
    /\ ConLeerCsv /\ archivo.existe /\ NingunaCodificacionLee
    /\ pc = "fin"
    /\ intentos = ENCODINGS
    /\ exit_code = <<1>>

\* some field of some row holds the replacement character
ContieneReemplazo(rows) ==
    \E j \in 1..Len(rows) :
        \E c \in DOMAIN rows[j] :
            rows[j][c] # None /\ \E n \in 1..Len(rows[j][c]) : rows[j][c][n] = "U+FFFD"

\* the file opens and its bytes decode under the e-th encoding
LeeSinError(e) == AbrirYLeer(archivo, ENCODINGS[e], "strict").ok

\* C10: the encodings are tried in the order of ENCODINGS; the reader goes
\* on to the next encoding exactly when the current one fails to decode the
\* file, returns the rows of the first encoding that decodes it without
\* error, and substitutes replacement characters only after every ordered
\* attempt has failed.
C10_PrimeraCodificacionQueDecodifica ==
    /\ intentos = SubSeq(ENCODINGS, 1, Len(intentos))
    /\ pc \in {"leido", "contado"} =>
          /\ Len(intentos) >= 1
          /\ LeeSinError(Len(intentos))
          /\ \A e \in 1..(Len(intentos) - 1) : ~LeeSinError(e)
          /\ pc = "leido" =>
                filas = AbrirYLeer(archivo, ENCODINGS[Len(intentos)], "strict").filas
    /\ ContieneReemplazo(filas) =>
          \A e \in 1..Len(ENCODINGS) : ~LeeSinError(e)

\* the part of C10 the code keeps: attempts follow the order of ENCODINGS and
\* stop at the first one that raises nothing
OrdenDeIntentos ==
    /\ intentos = SubSeq(ENCODINGS, 1, Len(intentos))
    /\ pc \in {"leido", "contado"} =>
          /\ Len(intentos) >= 1
          /\ AbrirYLeer(archivo, ENCODINGS[Len(intentos)], "replace").ok
          /\ \A e \in 1..(Len(intentos) - 1) :
                ~AbrirYLeer(archivo, ENCODINGS[e], "replace").ok

-----------------------------------------------------------------------------
(* C11 *)

Ultimo(s) == s[Len(s)]

AvisoSinLibreria ==
    IF script = "agrupar_estudios" THEN "Matplotlib no está instalado."
    ELSE "Plotly is not installed."

\* C11: without the charting library (MATPLOTLIB_DISPONIBLE / PLOTLY_DISPONIBLE
\* false) no chart file is ever written, and a run over a readable file with
\* data rows ends normally (status 0) after grouping every row, with the
\* warning as its last message and, in agrupar_estudios.py, the complete
\* console summary printed.
C11_SinLibreria ==
    (ConLeerCsv /\ ~DISPONIBLE) =>
        /\ escritos = {}
        /\ grafico = SinGrafico
        /\ html = SinHtml
        /\ (pc = "fin" /\ filas # <<>>) =>
              /\ exit_code = <<0>>
              /\ Suma(categorias) = Len(filas)
              /\ Claves(categorias) = CategoriasVistas
              /\ Ultimo(stdout) = AvisoSinLibreria
              /\ script = "agrupar_estudios" =>
                    /\ resumen.total = Len(filas)
                    /\ SinPorcentaje(resumen.categorias) = most_common(categorias)
                    /\ Len(resumen.detalle) = Len(categorias)

C11_Witness ==
    /\ script = "agrupar_estudios" /\ ~DISPONIBLE
    /\ pc = "fin" /\ Len(filas) = MaxFilas
    /\ Len(categorias) >= 2
    /\ resumen.total = MaxFilas
    /\ exit_code = <<0>>
    /\ Ultimo(stdout) = "Matplotlib no está instalado."

-----------------------------------------------------------------------------
(* C12 *)

\* a renderer is the next thing main calls
TurnoDeRenderizador == ConLeerCsv /\ pc \in {"retornado", "grafico"}

\* C12: a step of imprimir_resumen, crear_grafico_barras or
\* crear_grafico_html_interactivo leaves the four mappings returned by
\* agrupar_estudios as they were: same keys in the same order, same counts,
\* same record lists, no bucket added by a lookup.
C12_RenderizadoresNoModifican ==
    [][TurnoDeRenderizador => acumuladores' = acumuladores]_vars

C12_Witness ==
    /\ HtmlEscrito /\ pc = "fin"
    /\ Len(categorias) >= 2
    /\ Claves(subcategorias_por_categoria) = Claves(categorias)
    /\ Claves(estudios_por_categoria) = Claves(categorias)
    /\ Claves(suitability_por_categoria) = Claves(categorias)
    /\ Len(html.datos_js) = Len(categorias)

-----------------------------------------------------------------------------
(* C13 *)

\* the entry of datos_js for the j-th category and the record behind its
\* e-th study
EstudiosMostrados(j) == html.datos_js[j].v.estudios

RegistroDe(j, e) == Valor(estudios_por_categoria, html.datos_js[j].k, <<>>)[e]

\* C13: in the written page, the subcategory and the suitability level shown
\* for each study of the detail list are the bucket names under which
\* agrupar_estudios counted that study's record (one placeholder per field).
C13_PlaceholderUnico ==
    HtmlEscrito =>
        \A j \in 1..Len(html.datos_js) :
            \A e \in 1..Len(EstudiosMostrados(j)) :
                /\ EstudiosMostrados(j)[e].subcategory = Subcategoria(RegistroDe(j, e))
                /\ EstudiosMostrados(j)[e].suitability = Suitability(RegistroDe(j, e))

-----------------------------------------------------------------------------
(* C14 *)

\* the text between the first and the last non-whitespace character
Nucleo(valor) ==
    LET llenos == {j \in 1..Len(valor) : valor[j] \notin Espacios}
        primero == CHOOSE j \in llenos : \A m \in llenos : j <= m
        ultimo == CHOOSE j \in llenos : \A m \in llenos : j >= m
    IN  IF llenos = {} THEN <<>> ELSE SubSeq(valor, primero, ultimo)

\* the bucket a raw field value belongs to
CubetaEsperada(valor, placeholder) ==
    IF EsBlanco(valor) THEN placeholder ELSE Nucleo(valor)

CubetaCategoria(j) == CubetaEsperada(Get(filas[j], CATEGORY_FIELD), <<"Sin categoría">>)

CubetaSubcategoria(j) ==
    CubetaEsperada(Get(filas[j], SUBCATEGORY_FIELD), <<"Sin subcategoría">>)

\* C14: the buckets are exactly the trimmed texts of the processed records
\* (the placeholder for an absent, None, empty or whitespace-only value),
\* compared exactly: each category bucket counts the records whose trimmed
\* Category is that very text, so values differing only in outer whitespace
\* share a bucket and values differing in letter case or inner whitespace
\* do not; likewise for the subcategories inside a category. Every record,
\* blank fields included, has been counted when agrupar_estudios returns.
C14_IdentidadDeCubeta ==
    EnAgrupacion =>
        /\ Claves(categorias) = {CubetaCategoria(j) : j \in 1..Procesadas}
        /\ \A c \in Claves(categorias) :
              /\ Valor(categorias, c, 0) =
                    Cardinality({j \in 1..Procesadas : CubetaCategoria(j) = c})
              /\ \A s \in Claves(Valor(subcategorias_por_categoria, c, <<>>)) :
                    Valor(Valor(subcategorias_por_categoria, c, <<>>), s, 0) =
                       Cardinality({j \in 1..Procesadas :
                                       /\ CubetaCategoria(j) = c
                                       /\ CubetaSubcategoria(j) = s})
        /\ Agrupado => Procesadas = Len(filas)

\* "a" and " a " counted together, "A" apart, and a record with blank
\* subcategory and suitability among them
C14_Witness ==
    /\ Agrupado /\ Len(filas) = 3
    /\ \E j, m, n \in 1..3 :
          /\ Get(filas[j], CATEGORY_FIELD) = <<"a">>
          /\ Get(filas[j], SUITABILITY_FIELD) = <<>>
          /\ Get(filas[m], CATEGORY_FIELD) = <<" ", "a", " ">>
          /\ Get(filas[n], CATEGORY_FIELD) = <<"A">>
    /\ Valor(categorias, <<"a">>, 0) = 2
    /\ Valor(categorias, <<"A">>, 0) = 1

-----------------------------------------------------------------------------
(* C15 *)

SinAgrupar ==
    /\ categorias = <<>> /\ subcategorias_por_categoria = <<>>
    /\ estudios_por_categoria = <<>> /\ suitability_por_categoria = <<>>

SinRenderizar == resumen = SinResumen /\ grafico = SinGrafico /\ html = SinHtml

\* C15: a readable file without data rows ends the run at main's notice:
\* agrupar_estudios and the renderers are never entered, nothing is grouped,
\* printed as summary or written. Hence whenever a renderer is about to run
\* or has run, the category counter has at least one category, every
\* category count and the total are at least 1, so the percentage divisions
\* and the maximum over the category totals have non-empty, non-zero operands.
C15_SinDatosNoRenderiza ==
    /\ (ConLeerCsv /\ filas = <<>> /\ pc \notin {"inicio", "leer"}) =>
          /\ pc \in {"leido", "fin"}
          /\ SinAgrupar /\ SinRenderizar /\ escritos = {}
          /\ pc = "fin" /\ exit_code = <<0>> =>
                Ultimo(stdout) = AvisoSinDatos
    /\ Agrupado =>
          /\ Len(categorias) >= 1
          /\ Suma(categorias) >= 1
          /\ \A j \in 1..Len(categorias) : categorias[j].v >= 1
    /\ resumen # SinResumen => resumen.total >= 1
    /\ grafico # SinGrafico => Suma(Pares(grafico.nombres, grafico.valores)) >= 1
    /\ html # SinHtml => html.max_valor >= 1 /\ Len(html.valores_totales) >= 1

\* the run over a readable file without rows has ended at the notice
C15_Witness ==
    /\ ConLeerCsv /\ archivo.existe /\ archivo.abre /\ archivo.lineas = <<>>
    /\ pc = "fin" /\ exit_code = <<0>>
    /\ filas = <<>>
    /\ Ultimo(stdout) = AvisoSinDatos
    /\ SinAgrupar /\ SinRenderizar

-----------------------------------------------------------------------------
(* C19 *)

\* height of the stacked bar drawn for the j-th category: the sum of its
\* segments over suitability_levels
RECURSIVE AlturaApilada(_, _)
AlturaApilada(j, l) ==
    IF l = 0 THEN 0
    ELSE html.stacked_data[l].counts[j] + AlturaApilada(j, l - 1)

\* C19: in grafico_interactivo_html.py, for every category c the suitability
\* counts tracked for c sum to the count of c, and in the written page the four segments stacked for c
\* sum to the total printed above its bar, whatever the suitability values
\* of the records are (blank, or a text other than the four levels).
C19_SegmentosSumanTotal ==
    /\ (EnAgrupacion /\ script = "grafico_interactivo_html") =>
          \A c \in Claves(categorias) :
              Suma(Valor(suitability_por_categoria, c, <<>>)) = Valor(categorias, c, 0)
    /\ HtmlEscrito =>
          \A j \in 1..Len(html.nombres) :
              AlturaApilada(j, Len(html.stacked_data)) = html.valores_totales[j]

\* the part of C19 that holds: the tracked suitability counts of a category
\* sum to its count
SuitabilitySumaCategoria ==
    (EnAgrupacion /\ script = "grafico_interactivo_html") =>
        \A c \in Claves(categorias) :
            Suma(Valor(suitability_por_categoria, c, <<>>)) = Valor(categorias, c, 0)

-----------------------------------------------------------------------------
(* The generated page (docs/grafico_interactivo.html): JavaScript values *)

\* the UTF-16 code units of the characters a symbol stands for (a JavaScript
\* string is a sequence of UTF-16 code units)
Utf16(simbolo) ==
    CASE simbolo = " " -> <<32>>
      [] simbolo = "\t" -> <<9>>
      [] simbolo = "a" -> <<97>>
      [] simbolo = "A" -> <<65>>
      [] simbolo = "x" -> <<120>>
      [] simbolo = "y" -> <<121>>
      [] simbolo = "High" -> <<72, 105, 103, 104>>
      [] simbolo = "Moderate" -> <<77, 111, 100, 101, 114, 97, 116, 101>>
      [] simbolo = "Low" -> <<76, 111, 119>>
      [] simbolo = "Otro" -> <<79, 116, 114, 111>>
      [] simbolo = "Not applicable" -> <<78, 111, 116, 32, 97, 112, 112, 108, 105, 99, 97, 98, 108, 101>>
      [] simbolo = "N/A" -> <<78, 47, 65>>
      [] simbolo = "2017" -> <<50, 48, 49, 55>>
      [] simbolo = "2018" -> <<50, 48, 49, 56>>
      [] simbolo = "2019" -> <<50, 48, 49, 57>>
      [] simbolo = "2020" -> <<50, 48, 50, 48>>
      [] simbolo = "2021" -> <<50, 48, 50, 49>>
      [] simbolo = "2022" -> <<50, 48, 50, 50>>
      [] simbolo = "Sin categoría" -> <<83, 105, 110, 32, 99, 97, 116, 101, 103, 111, 114, 237, 97>>
      [] simbolo = "Sin subcategoría" -> <<83, 105, 110, 32, 115, 117, 98, 99, 97, 116, 101, 103, 111, 114, 237, 97>>
      [] simbolo = "[Sin título]" -> <<91, 83, 105, 110, 32, 116, 237, 116, 117, 108, 111, 93>>
      [] simbolo = "[Sin autor]" -> <<91, 83, 105, 110, 32, 97, 117, 116, 111, 114, 93>>
      [] simbolo = "[Sin año]" -> <<91, 83, 105, 110, 32, 97, 241, 111, 93>>
      [] simbolo = "[Sin subcategoría]" -> <<91, 83, 105, 110, 32, 115, 117, 98, 99, 97, 116, 101, 103, 111, 114, 237, 97, 93>>
      [] simbolo = "U+00E9" -> <<233>>
      [] simbolo = "U+FFFD" -> <<65533>>

\* the JavaScript string a text of the page data is (json.dumps with
\* ensure_ascii=False writes the characters themselves)
RECURSIVE CadenaJs(_)
CadenaJs(texto) ==
    IF texto = <<>> THEN <<>>
    ELSE Utf16(Head(texto)) \o CadenaJs(Tail(texto))

\* String.prototype.toLowerCase (the upper-case letters of the model's
\* alphabet are ASCII)
toLowerCase(cadena) ==
    [j \in 1..Len(cadena) |->
        IF cadena[j] >= 65 /\ cadena[j] <= 90 THEN cadena[j] + 32 ELSE cadena[j]]

\* a < b on two strings: lexicographic order of the code units
RECURSIVE MenorCadena(_, _)
MenorCadena(a, b) ==
    IF b = <<>> THEN FALSE
    ELSE IF a = <<>> THEN TRUE
    ELSE IF a[1] # b[1] THEN a[1] < b[1]
    ELSE MenorCadena(Tail(a), Tail(b))

\* String.prototype.includes
includes(cadena, buscada) ==
    \E j \in 0..(Len(cadena) - Len(buscada)) :
        SubSeq(cadena, j + 1, j + Len(buscada)) = buscada

RECURSIVE SinBlancosIniciales(_)
SinBlancosIniciales(cadena) ==
    IF cadena # <<>> /\ cadena[1] \in {9, 10, 13, 32}
    THEN SinBlancosIniciales(Tail(cadena))
    ELSE cadena

\* the number spelled by the leading decimal digits of cadena, after acc
RECURSIVE LeerDigitos(_, _)
LeerDigitos(cadena, acc) ==
    IF cadena # <<>> /\ cadena[1] >= 48 /\ cadena[1] <= 57
    THEN LeerDigitos(Tail(cadena), 10 * acc + (cadena[1] - 48))
    ELSE acc

\* parseInt(cadena): <<n>>, or <<>> for NaN
parseInt(cadena) ==
    LET s == SinBlancosIniciales(cadena)
        conSigno == s # <<>> /\ s[1] \in {43, 45}
        resto == IF conSigno THEN Tail(s) ELSE s
    IN  IF resto = <<>> \/ resto[1] < 48 \/ resto[1] > 57 THEN <<>>
        ELSE IF conSigno /\ s[1] = 45 THEN <<0 - LeerDigitos(resto, 0)>>
        ELSE <<LeerDigitos(resto, 0)>>

\* parseInt(valor) || 0: NaN and 0 are falsy
parseIntO0(cadena) ==
    IF parseInt(cadena) = <<>> THEN 0 ELSE parseInt(cadena)[1]

\* obtenerClaseBadge(suitability); the searched strings are 'high',
\* 'moderate' and 'low'
obtenerClaseBadge(suitability) ==
    LET nivel == toLowerCase(CadenaJs(suitability))
    IN  IF includes(nivel, <<104, 105, 103, 104>>) THEN "badge-high"
        ELSE IF includes(nivel, <<109, 111, 100, 101, 114, 97, 116, 101>>)
        THEN "badge-moderate"
        ELSE IF includes(nivel, <<108, 111, 119>>) THEN "badge-low"
        ELSE "badge-na"

-----------------------------------------------------------------------------
(* The generated page: its script.  A handler takes and returns the page     *)
(* state js = [dom, estudiosActuales, ordenActual, paneles]; the browser     *)
(* runs one handler at a time, to completion.                                *)

\* const datosSubcategorias = json.dumps(datos_js)
datosSubcategorias == html.datos_js

\* ((count / total) * 100).toFixed(1), in tenths of a percent (total > 0; an
\* exact tie goes to the larger tenth)
toFixed1(count, total) == DecimasDe(count, total, "mayor")

\* renderizarFilasTabla(estudios): the body of the table emptied (a message
\* shown there goes too), then one row per study
renderizarFilasTabla(tabla, estudios) ==
    [tabla EXCEPT
        !.mensaje = "",
        !.filas = [n \in 1..Len(estudios) |->
                      [indice |-> n,
                       estudio |-> estudios[n],
                       badge |-> obtenerClaseBadge(estudios[n].suitability)]]]

\* the comparison function ordenarTabla passes to sort: -1, 0 or 1 (a
\* property the study lacks is undefined, which || turns into '' or 0)
Comparar(a, b, column, direction) ==
    LET aVal == IF column \in DOMAIN a THEN a[column] ELSE <<>>
        bVal == IF column \in DOMAIN b THEN b[column] ELSE <<>>
        menor == IF column = "year"
                 THEN parseIntO0(CadenaJs(aVal)) < parseIntO0(CadenaJs(bVal))
                 ELSE MenorCadena(toLowerCase(CadenaJs(aVal)),
                                  toLowerCase(CadenaJs(bVal)))
        mayor == IF column = "year"
                 THEN parseIntO0(CadenaJs(aVal)) > parseIntO0(CadenaJs(bVal))
                 ELSE MenorCadena(toLowerCase(CadenaJs(bVal)),
                                  toLowerCase(CadenaJs(aVal)))
    IN  IF menor THEN (IF direction = "asc" THEN 0 - 1 ELSE 1)
        ELSE IF mayor THEN (IF direction = "asc" THEN 1 ELSE 0 - 1)
        ELSE 0

\* x put after every element that does not compare greater than it
RECURSIVE InsertarSegun(_, _, _, _)
InsertarSegun(lista, x, column, direction) ==
    IF lista = <<>> THEN <<x>>
    ELSE IF Comparar(x, Head(lista), column, direction) < 0 THEN <<x>> \o lista
    ELSE <<Head(lista)>> \o InsertarSegun(Tail(lista), x, column, direction)

\* [...estudios].sort(compare): Array.prototype.sort is stable
RECURSIVE sort(_, _, _)
sort(estudios, column, direction) ==
    IF estudios = <<>> THEN <<>>
    ELSE InsertarSegun(sort(SubSeq(estudios, 1, Len(estudios) - 1), column, direction),
                       estudios[Len(estudios)], column, direction)

\* the sort classes after the loop over th.sortable: every header loses
\* sort-asc and sort-desc, and the header whose data-sort is the column, when
\* there is one, gets the class of the direction
indicadores(column, direction) ==
    IF column \in sortable
    THEN <<[column |-> column,
            clase |-> IF direction = "asc" THEN "sort-asc" ELSE "sort-desc"]>>
    ELSE <<>>

\* ordenarTabla that sorts estudiosActuales itself
ordenarTablaEnSitio(js, column) ==
    IF js.estudiosActuales = <<>> THEN js
    ELSE LET orden ==
                IF js.ordenActual.column = column
                THEN [column |-> column,
                      direction |-> IF js.ordenActual.direction = "asc"
                                    THEN "desc" ELSE "asc"]
                ELSE [column |-> column, direction |-> "asc"]
             estudiosOrdenados == sort(js.estudiosActuales, column, orden.direction)
         IN  [js EXCEPT
                !.ordenActual = orden,
                !.estudiosActuales = estudiosOrdenados,
                !.paneles.tabla =
                    renderizarFilasTabla(
                        [js.paneles.tabla EXCEPT
                            !.indicador = indicadores(column, orden.direction)],
                        estudiosOrdenados)]

\* ordenarTabla(column)
ordenarTabla(js, column) ==
    IF js.estudiosActuales = <<>> THEN js
    ELSE LET orden ==
                IF js.ordenActual.column = column
                THEN [column |-> column,
                      direction |-> IF js.ordenActual.direction = "asc"
                                    THEN "desc" ELSE "asc"]
                ELSE [column |-> column, direction |-> "asc"]
             estudiosOrdenados == sort(js.estudiosActuales, column, orden.direction)
         IN  [js EXCEPT
                !.ordenActual = orden,
                !.paneles.tabla =
                    renderizarFilasTabla(
                        [js.paneles.tabla EXCEPT
                            !.indicador = indicadores(column, orden.direction)],
                        estudiosOrdenados)]

\* configurarOrdenamientoTabla that adds a listener without removing the old
configurarOrdenamientoTablaSinQuitar(d) ==
    [d EXCEPT !.click = [th \in sortable |-> d.click[th] + 1],
              !.sortHandler = [th \in sortable |-> TRUE]]

\* configurarOrdenamientoTabla(): for each th.sortable, remove the listener
\* kept in th._sortHandler, make a new one, keep it and add it
configurarOrdenamientoTabla(d) ==
    [d EXCEPT !.click =
                 [th \in sortable |->
                     (IF d.sortHandler[th] /\ d.click[th] > 0
                      THEN d.click[th] - 1 ELSE d.click[th]) + 1],
              !.sortHandler = [th \in sortable |-> TRUE]]

\* configurarInteractividad(): one plotly_click listener on a plot that has
\* its data, a retry in 500 ms when no plot has data yet
configurarInteractividad(d) ==
    LET d1 == IF d.data /\ ~d.clickHandlerAdded
              THEN [d EXCEPT !.clickHandlerAdded = TRUE,
                             !.plotly_click = d.plotly_click + 1]
              ELSE d
    IN  IF ~d.data
        THEN [d1 EXCEPT !.timers = Append(d1.timers, "configurarInteractividad")]
        ELSE d1

\* esperarPlotly()
esperarPlotly(d) ==
    IF d.Plotly
    THEN IF d.readyState = "loading"
         THEN [d EXCEPT !.DOMContentLoaded = Append(d.DOMContentLoaded, "listo")]
         ELSE [d EXCEPT !.timers = Append(d.timers, "listo")]
    ELSE [d EXCEPT !.timers = Append(d.timers, "esperarPlotly")]

\* the callback esperarPlotly registers: configurarInteractividad();
\* configurarOrdenamientoTabla()
AlEstarListo(d) == configurarOrdenamientoTabla(configurarInteractividad(d))

\* the callback of the page's start: esperarPlotly();
\* configurarOrdenamientoTabla()
AlIniciar(d) == configurarOrdenamientoTabla(esperarPlotly(d))

\* the last statement of the script, run while the page is being parsed
InicioDelScript(d) ==
    IF d.readyState = "loading"
    THEN [d EXCEPT !.DOMContentLoaded = Append(d.DOMContentLoaded, "inicio")]
    ELSE AlIniciar(d)

\* mostrarDetalles(categoria, total); its timer only scrolls the panel
mostrarDetalles(js, categoria, total) ==
    IF categoria \notin Claves(datosSubcategorias)
    THEN [js EXCEPT
            !.paneles.detalles.mensaje = "No information available for this category.",
            !.paneles.detalles.contenido = <<>>,
            !.paneles.detalles.visible = TRUE]
    ELSE LET datos == Valor(datosSubcategorias, categoria, <<>>)
         IN  [js EXCEPT
                !.paneles.detalles =
                    [visible |-> TRUE,
                     titulo |-> <<[categoria |-> categoria, total |-> total]>>,
                     mensaje |-> "",
                     contenido |->
                        [n \in 1..Len(datos.subcategorias) |->
                            [nombre |-> datos.subcategorias[n].k,
                             count |-> datos.subcategorias[n].v,
                             porcentaje |->
                                toFixed1(datos.subcategorias[n].v, total)]]]]

\* mostrarTablaEstudios(categoria, total)
mostrarTablaEstudios(js, categoria, total) ==
    IF categoria \notin Claves(datosSubcategorias)
    THEN [js EXCEPT
            !.paneles.tabla.mensaje = "No studies available for this category.",
            !.paneles.tabla.filas = <<>>,
            !.paneles.tabla.visible = TRUE]
    ELSE LET estudios == Valor(datosSubcategorias, categoria, <<>>).estudios
         IN  [js EXCEPT
                !.estudiosActuales = estudios,
                !.ordenActual = [column |-> null, direction |-> "asc"],
                !.paneles.tabla =
                    [renderizarFilasTabla(js.paneles.tabla, estudios) EXCEPT
                        !.visible = TRUE,
                        !.titulo = <<[categoria |-> categoria, total |-> total]>>,
                        !.indicador = <<>>],
                !.dom = configurarOrdenamientoTabla(js.dom)]

\* the plotly_click listener: punto = data.points[0]; categoria = punto.x;
\* count = punto.y
AlClicEnPlot(js, punto) ==
    mostrarTablaEstudios(mostrarDetalles(js, punto.x, punto.y), punto.x, punto.y)

\* the click listener of a header: ordenarTabla(th.dataset.sort)
AlClicEnCabecera(js, th) == ordenarTabla(js, th)

\* a plotly_click event delivered to the n listeners of the plot
RECURSIVE EmitirPlotlyClick(_, _, _)
EmitirPlotlyClick(js, n, punto) ==
    IF n = 0 THEN js
    ELSE EmitirPlotlyClick(AlClicEnPlot(js, punto), n - 1, punto)

\* a click event delivered to the n listeners of the header th
RECURSIVE EmitirClick(_, _, _)
EmitirClick(js, n, th) ==
    IF n = 0 THEN js
    ELSE EmitirClick(AlClicEnCabecera(js, th), n - 1, th)

\* the DOMContentLoaded event delivered to the document's listeners
RECURSIVE EmitirDOMContentLoaded(_, _)
EmitirDOMContentLoaded(d, oyentes) ==
    IF oyentes = <<>> THEN d
    ELSE EmitirDOMContentLoaded(
            IF Head(oyentes) = "inicio" THEN AlIniciar(d) ELSE AlEstarListo(d),
            Tail(oyentes))

\* the points of the chart a click can hit: the segments of positive height
\* of the stacked bars (the text trace has hoverinfo 'skip'); x is the
\* category and y the value of the segment's own trace
Puntos ==
    {[x |-> html.nombres[j], y |-> html.stacked_data[l].counts[j], nivel |-> l] :
        <<j, l>> \in {par \in (1..Len(html.nombres)) \X (1..Len(html.stacked_data)) :
                        html.stacked_data[par[2]].counts[par[1]] > 0}}

Js == [dom |-> dom, estudiosActuales |-> estudiosActuales,
       ordenActual |-> ordenActual, paneles |-> paneles]

SinTimer(timers, k) == SubSeq(timers, 1, k - 1) \o SubSeq(timers, k + 1, Len(timers))

PaginaAbierta == dom.readyState # "cerrada"

proceso ==
    <<script, archivo, DISPONIBLE, pc, enc, intentos, filas, i, acumuladores,
      stdout, salidas, exit_code, corrida, previo>>

-----------------------------------------------------------------------------
(* The generated page: what happens in the browser *)

\* a browser opens the written page: the Plotly script of the head has loaded
\* or failed, and the page's own script runs to its last statement
AbrirPagina ==
    /\ script = "grafico_interactivo_html" /\ pc = "fin" /\ HtmlEscrito
    /\ ~PaginaAbierta
    /\ \E cargado \in BOOLEAN :
          dom' = InicioDelScript([dom EXCEPT !.readyState = "loading",
                                             !.Plotly = cargado])
    /\ UNCHANGED <<proceso, estudiosActuales, ordenActual, paneles, clic>>

\* the document has been parsed
DOMContentLoaded ==
    /\ dom.readyState = "loading"
    /\ dom' = EmitirDOMContentLoaded([dom EXCEPT !.readyState = "interactive"],
                                     dom.DOMContentLoaded)
    /\ UNCHANGED <<proceso, estudiosActuales, ordenActual, paneles, clic>>

\* Plotly.newPlot of the chart's div has given the plot its data
PlotlyDibuja ==
    /\ PaginaAbierta /\ dom.Plotly /\ ~dom.data
    /\ dom' = [dom EXCEPT !.data = TRUE]
    /\ UNCHANGED <<proceso, estudiosActuales, ordenActual, paneles, clic>>

\* setTimeout(esperarPlotly, 100) comes due
TimerEsperarPlotly ==
    /\ \E k \in 1..Len(dom.timers) :
          /\ dom.timers[k] = "esperarPlotly"
          /\ dom' = esperarPlotly([dom EXCEPT !.timers = SinTimer(dom.timers, k)])
    /\ UNCHANGED <<proceso, estudiosActuales, ordenActual, paneles, clic>>

\* the 300 ms timer of esperarPlotly comes due
TimerListo ==
    /\ \E k \in 1..Len(dom.timers) :
          /\ dom.timers[k] = "listo"
          /\ dom' = AlEstarListo([dom EXCEPT !.timers = SinTimer(dom.timers, k)])
    /\ UNCHANGED <<proceso, estudiosActuales, ordenActual, paneles, clic>>

\* setTimeout(configurarInteractividad, 500) comes due
TimerConfigurarInteractividad ==
    /\ \E k \in 1..Len(dom.timers) :
          /\ dom.timers[k] = "configurarInteractividad"
          /\ dom' = configurarInteractividad(
                        [dom EXCEPT !.timers = SinTimer(dom.timers, k)])
    /\ UNCHANGED <<proceso, estudiosActuales, ordenActual, paneles, clic>>

\* the user clicks the segment punto of a bar
ClickEnBarra(punto) ==
    /\ PaginaAbierta /\ dom.data
    /\ LET js == EmitirPlotlyClick(Js, dom.plotly_click, punto)
       IN  /\ dom' = js.dom
           /\ estudiosActuales' = js.estudiosActuales
           /\ ordenActual' = js.ordenActual
           /\ paneles' = js.paneles
    /\ clic' = [tipo |-> "barra", objetivo |-> punto.x, llamadas |-> dom.plotly_click]
    /\ UNCHANGED proceso

ClickBarra == \E punto \in Puntos : ClickEnBarra(punto)

\* a click on the header th of the studies table
ClickEnCabecera(th) ==
    /\ dom.readyState = "interactive"
    /\ LET js == EmitirClick(Js, dom.click[th], th)
       IN  /\ dom' = js.dom
           /\ estudiosActuales' = js.estudiosActuales
           /\ ordenActual' = js.ordenActual
           /\ paneles' = js.paneles
    /\ clic' = [tipo |-> "cabecera", objetivo |-> <<th>>, llamadas |-> dom.click[th]]
    /\ UNCHANGED proceso

ClickCabecera == \E th \in sortable : ClickEnCabecera(th)

\* bound of the page specification: data rows of the file behind the page
MaxEstudios == 2

ArchivosDePagina ==
    {[existe |-> TRUE, abre |-> TRUE, columnas |-> Columnas, lineas |-> l] :
        l \in Secuencias(FilasCrudas, MaxEstudios) \ {<<>>}}

\* grafico_interactivo_html.py run on a readable file with data rows and
\* Plotly installed, then the written page opened in a browser
InitPagina ==
    /\ script = "grafico_interactivo_html"
    /\ archivo \in ArchivosDePagina
    /\ DISPONIBLE = TRUE
    /\ pc = "inicio"
    /\ enc = 1
    /\ intentos = <<>>
    /\ filas = <<>>
    /\ i = 1
    /\ categorias = <<>>
    /\ subcategorias_por_categoria = <<>>
    /\ estudios_por_categoria = <<>>
    /\ suitability_por_categoria = <<>>
    /\ stdout = <<>>
    /\ resumen = SinResumen
    /\ grafico = SinGrafico
    /\ html = SinHtml
    /\ escritos = {}
    /\ exit_code = <<>>
    /\ total_lineas = 0
    /\ corrida = 1
    /\ previo = SinPrevio
    /\ PaginaCerrada

NextPagina ==
    \/ LeerCsvExiste
    \/ LeerCsvIntentoOk
    \/ MainConDatos
    \/ AgruparInicio
    \/ AgruparPaso
    \/ AgruparRetorno
    \/ CrearGraficoHtml
    \/ AbrirPagina
    \/ DOMContentLoaded
    \/ PlotlyDibuja
    \/ TimerEsperarPlotly
    \/ TimerListo
    \/ TimerConfigurarInteractividad
    \/ ClickBarra
    \/ ClickCabecera

SpecPagina == InitPagina /\ [][NextPagina]_vars

-----------------------------------------------------------------------------
(* C16 *)

\* the studies of category c as the page data lists them: the records of c
\* in the order of the input file
EstudiosDeEntrada(c) ==
    LET registros == SelectSeq(filas, LAMBDA fila : Categoria(fila) = c)
    IN  [n \in 1..Len(registros) |-> EstudioJs(registros[n])]

Opuesta(direction) == IF direction = "asc" THEN "desc" ELSE "asc"

\* what one header click on th does to the sort state
EfectoDeCabecera(th) ==
    /\ estudiosActuales' = estudiosActuales
    /\ IF estudiosActuales = <<>>
       THEN ordenActual' = ordenActual /\ paneles' = paneles
       ELSE IF ordenActual.column = th
       THEN ordenActual' = [column |-> th, direction |-> Opuesta(ordenActual.direction)]
       ELSE ordenActual' = [column |-> th, direction |-> "asc"]

\* what a bar click that reaches the handler does to the sort state
EfectoDeBarra(punto) ==
    /\ ordenActual' = [column |-> null, direction |-> "asc"]
    /\ estudiosActuales' = EstudiosDeEntrada(punto.x)

EstadoDeOrdenOk ==
    /\ ordenActual.column \in sortable \cup {null}
    /\ ordenActual.direction \in {"asc", "desc"}
    /\ ordenActual.column = null => ordenActual.direction = "asc"
    /\ \/ estudiosActuales = <<>> /\ ordenActual = OrdenInicial
       \/ \E c \in Claves(datosSubcategorias) : estudiosActuales = EstudiosDeEntrada(c)

\* C16: in the page, through any sequence of bar and header clicks, the sort
\* state is a sortable column or null with a direction, and estudiosActuales
\* is empty or the studies of one category in input order (a header click
\* sorts a copy); selecting a category sets column = null, direction = 'asc';
\* a header click on another column sets that column with 'asc', on the
\* current column flips the direction, and with no studies loaded changes
\* nothing.
C16_EstadoDeOrden ==
    /\ []EstadoDeOrdenOk
    /\ [][/\ \A th \in sortable : ClickEnCabecera(th) => EfectoDeCabecera(th)
          /\ \A punto \in Puntos :
                (ClickEnBarra(punto) /\ dom.plotly_click >= 1) => EfectoDeBarra(punto)
         ]_vars

\* two studies loaded, sorted by year downwards after a second click on the
\* year header: the table shows them in the other order than estudiosActuales
C16_Witness ==
    /\ ordenActual = [column |-> "year", direction |-> "desc"]
    /\ Len(estudiosActuales) = 2
    /\ clic.tipo = "cabecera" /\ clic.llamadas = 1
    /\ paneles.tabla.filas[1].estudio = estudiosActuales[2]
    /\ paneles.tabla.filas[1].estudio # estudiosActuales[1]
    /\ \E c \in Claves(datosSubcategorias) : estudiosActuales = EstudiosDeEntrada(c)

-----------------------------------------------------------------------------
(* C17 *)

OyentesOk ==
    /\ \A th \in sortable :
          /\ dom.click[th] <= 1
          /\ dom.sortHandler[th] <=> dom.click[th] = 1
          /\ dom.readyState = "interactive" => dom.click[th] = 1
    /\ dom.plotly_click <= 1
    /\ dom.clickHandlerAdded <=> dom.plotly_click = 1
    /\ clic.llamadas <= 1
    /\ clic.tipo = "cabecera" => clic.llamadas = 1

\* C17: however the calls that install handlers interleave (page load, the
\* Plotly-ready timer, the retries of configurarInteractividad, every
\* category selection), each sortable header holds at most one click
\* listener, exactly one once the page has loaded, and the plot at most one
\* plotly_click listener; so a header click makes exactly one ordenarTabla
\* call, and a bar click on a plot whose handler is installed exactly one
\* mostrarDetalles/mostrarTablaEstudios pair.
C17_UnSoloOyente ==
    /\ []OyentesOk
    /\ [][\A punto \in Puntos :
             (ClickEnBarra(punto) /\ dom.clickHandlerAdded) => clic'.llamadas = 1]_vars

\* handlers installed by page load, by the Plotly-ready timer and by a
\* category selection; then a header click
C17_Witness ==
    /\ dom.readyState = "interactive" /\ dom.timers = <<>>
    /\ dom.clickHandlerAdded /\ dom.plotly_click = 1
    /\ paneles.tabla.visible /\ estudiosActuales # <<>>
    /\ \A th \in sortable : dom.click[th] = 1
    /\ clic.tipo = "cabecera" /\ clic.llamadas = 1
    /\ ordenActual.direction = "desc"

-----------------------------------------------------------------------------
(* C18 *)

TotalDeCategoria(c) == Valor(datosSubcategorias, c, <<>>).total

\* C18: after a click on a bar of category c, the total shown in the titles
\* of the details panel and of the studies table is the total count of c
\* (datosSubcategorias[c].total), whichever segment of the bar was clicked,
\* and every subcategory percentage shown is at most 100.0 %.
C18_TotalDeCategoria ==
    /\ \A t \in 1..Len(paneles.detalles.titulo) :
          paneles.detalles.titulo[t].total =
             TotalDeCategoria(paneles.detalles.titulo[t].categoria)
    /\ \A t \in 1..Len(paneles.tabla.titulo) :
          paneles.tabla.titulo[t].total =
             TotalDeCategoria(paneles.tabla.titulo[t].categoria)
    /\ \A n \in 1..Len(paneles.detalles.contenido) :
          paneles.detalles.contenido[n].porcentaje <= 1000

\* the percentages alone already exceed 100 %
PorcentajesHasta100 ==
    \A n \in 1..Len(paneles.detalles.contenido) :
        paneles.detalles.contenido[n].porcentaje <= 1000

====
